---- MODULE Spec2Model ----
(***************************************************************************)
(* A model of aabbtree.py: the AABB box (limits plus the iteration cursor  *)
(* _i that __iter__/__next__ keep on the box object itself) and the        *)
(* AABBTree built by add and read by does_overlap / overlap_values.        *)
(*                                                                         *)
(* A box is a record [obj, isNone, limits]:                                *)
(*   obj     the identity of the Python object (a sequence of integers),   *)
(*           needed because zip(self, aabb) iterates both boxes through    *)
(*           the cursor stored on the object: when self is aabb there is   *)
(*           one cursor, not two;                                          *)
(*   isNone  limits is None (the unset box AABB());                        *)
(*   limits  the sequence of <<lower, upper>> pairs (<<>> when unset).     *)
(* A tree node is a record [aabb, value, left, right]; left and right are  *)
(* <<>> for None and <<node>> for a child; value "None" is Python's None.  *)
(***************************************************************************)
EXTENDS Integers, Sequences, FiniteSets, Bags, TLC

VARIABLES
    tree,     \* the AABBTree object the caller holds (the root node)
    hist,     \* the (aabb, value) arguments of the add calls made so far
    op,       \* the last operation: "init", "add", "does_overlap", "overlap_values", or a box operation
    arg,      \* the box passed to the last operation
    prev,     \* the tree before the last add
    ret,      \* what the last query / box operation returned
    arg2,     \* second operand of the last box operation
    thr,      \* the query threads: call stack and the overlaps() call in progress
    cur       \* the cursor _i of every box object some thread has iterated

vars == <<tree, hist, op, arg, prev, ret, arg2, thr, cur>>

----------------------------------------------------------------------------
(* Bounds and input universes *)

MaxAdds == 4          \* add calls in Spec
MaxQueryAdds == 2     \* add calls in SpecQuery
MaxConcAdds == 2      \* add calls in SpecConc, before the two queries start

Coords == {0, 1}
Dims == {1, 2}

\* the payload of the n-th add: every item has its own (the code stores a
\* value and hands it back, and never looks at it)
ValueNames == <<"v1", "v2", "v3", "v4", "v5", "v6">>

\* the (lower, upper) pairs AABB.__init__ accepts (line 24: lims[0] <= lims[1])
Intervals == {lims \in Coords \X Coords : lims[1] <= lims[2]}

\* every limits list over Intervals, per dimensionality
LimitsOf(d) == IF d = 1 THEN {<<x>> : x \in Intervals}
               ELSE {<<x, y>> : x \in Intervals, y \in Intervals}

Min(a, b) == IF a < b THEN a ELSE b
Max(a, b) == IF a > b THEN a ELSE b

----------------------------------------------------------------------------
(* class AABB *)

\* AABB(limits): a new object obj with these limits, cursor 0
AABB(limits, obj) == [obj |-> obj, isNone |-> FALSE, limits |-> limits]

\* AABB(): limits None.  The default argument aabb=AABB() of
\* AABBTree.__init__ is one object, shared by every tree made without a box.
AABB_None(obj) == [obj |-> obj, isNone |-> TRUE, limits |-> <<>>]

\* the pairs zip(self, aabb) yields once both __iter__ calls have reset the
\* cursors: i1, i2 are self._i and aabb._i; when self is aabb the two are the
\* same attribute, so each __next__ moves the cursor the other one reads.
RECURSIVE zip_from(_, _, _, _)
zip_from(self, aabb, i1, i2) ==
    IF ~(i1 < Len(self.limits))
    THEN <<>>
    ELSE LET j2 == IF self.obj = aabb.obj THEN i1 + 1 ELSE i2
         IN  IF ~(j2 < Len(aabb.limits))
             THEN <<>>
             ELSE LET j1 == IF self.obj = aabb.obj THEN j2 + 1 ELSE i1 + 1
                  IN  <<<<self.limits[i1 + 1], aabb.limits[j2 + 1]>>>>
                         \o zip_from(self, aabb, j1, j2 + 1)

zip(self, aabb) == zip_from(self, aabb, 0, 0)

\* len(self) on limits None raises TypeError: at the first __next__ of self,
\* or at the first __next__ of aabb when self yielded an item
zip_raises(self, aabb) ==
    \/ self.isNone
    \/ (Len(self.limits) > 0 /\ aabb.isNone)

\* AABB.__eq__
AABB_eq(self, aabb) ==
    IF self.isNone /\ aabb.isNone THEN TRUE
    ELSE IF self.isNone \/ aabb.isNone THEN FALSE
    ELSE IF Len(self.limits) # Len(aabb.limits) THEN FALSE
    ELSE \A i \in 1..Len(self.limits) :
            ~(self.limits[i][1] # aabb.limits[i][1] \/ self.limits[i][2] # aabb.limits[i][2])

\* AABB.merge, the new box being object obj
merge(aabb1, aabb2, obj) ==
    IF aabb1.isNone /\ aabb2.isNone THEN AABB_None(obj)
    ELSE IF aabb1.isNone THEN AABB(aabb2.limits, obj)
    ELSE IF aabb2.isNone THEN AABB(aabb1.limits, obj)
    ELSE LET z == zip(aabb1, aabb2)
         IN  AABB([k \in 1..Len(z) |->
                     <<Min(z[k][1][1], z[k][2][1]), Max(z[k][1][2], z[k][2][2])>>], obj)

RECURSIVE p_edge(_, _, _)
p_edge(side_lens, i, j) ==
    IF j > Len(side_lens) THEN 1
    ELSE (IF j # i THEN side_lens[j] ELSE 1) * p_edge(side_lens, i, j + 1)

RECURSIVE perim_sum(_, _)
perim_sum(side_lens, i) ==
    IF i > Len(side_lens) THEN 0
    ELSE p_edge(side_lens, i, 1) + perim_sum(side_lens, i + 1)

\* AABB.perimeter (of a box whose limits are set)
perimeter(self) ==
    IF Len(self.limits) = 1 THEN 0
    ELSE LET side_lens == [k \in 1..Len(self.limits) |->
                              self.limits[k][2] - self.limits[k][1]]
         IN  2 * perim_sum(side_lens, 1)

\* AABB.overlaps: [exc, val]; exc is the TypeError of len(None)
overlaps(self, aabb) ==
    IF zip_raises(self, aabb) THEN [exc |-> TRUE, val |-> FALSE]
    ELSE LET z == zip(self, aabb)
         IN  [exc |-> FALSE,
              val |-> \A k \in 1..Len(z) :
                         (z[k][1][2] >= z[k][2][1]) /\ (z[k][1][1] <= z[k][2][2])]

----------------------------------------------------------------------------
(* class AABBTree *)

\* AABBTree(aabb, value, left=None, right=None)
AABBTree(aabb, value) == [aabb |-> aabb, value |-> value, left |-> <<>>, right |-> <<>>]

DefaultAABB == AABB_None(<<0>>)

is_leaf(self) == (self.left = <<>>) /\ (self.right = <<>>)

\* copy.deepcopy of a box during add number gen: a new object
copy_aabb(aabb, gen) == [aabb EXCEPT !.obj = Append(aabb.obj, 0 - gen)]

\* copy.deepcopy(self): every node and every box is a new object; the memo
\* keeps a box that two nodes share shared in the copy
RECURSIVE deepcopy(_, _)
deepcopy(self, gen) ==
    [aabb  |-> copy_aabb(self.aabb, gen),
     value |-> self.value,
     left  |-> IF self.left = <<>> THEN <<>> ELSE <<deepcopy(self.left[1], gen)>>,
     right |-> IF self.right = <<>> THEN <<>> ELSE <<deepcopy(self.right[1], gen)>>]

\* the identity of the box add number gen makes at depth d
NewObj(gen, d) == <<0, gen, d>>

\* the branch add takes at node self: "fill" (line 246), "leaf" (250),
\* "split" (273), "left" (277), "right" (279)
choice(self, aabb) ==
    IF AABB_eq(self.aabb, AABB_None(<<0>>)) THEN "fill"
    ELSE IF is_leaf(self) THEN "leaf"
    ELSE LET tree_p == perimeter(self.aabb)
             tree_merge_p == perimeter(merge(self.aabb, aabb, <<0>>))
             new_parent_cost == 2 * tree_merge_p
             min_pushdown_cost == 2 * (tree_merge_p - tree_p)
             left_merge_p == perimeter(merge(self.left[1].aabb, aabb, <<0>>))
             cost_left == left_merge_p + min_pushdown_cost
                            - (IF ~is_leaf(self.left[1]) THEN perimeter(self.left[1].aabb) ELSE 0)
             right_merge_p == perimeter(merge(self.right[1].aabb, aabb, <<0>>))
             cost_right == right_merge_p + min_pushdown_cost
                            - (IF ~is_leaf(self.right[1]) THEN perimeter(self.right[1].aabb) ELSE 0)
         IN  IF new_parent_cost < Min(cost_left, cost_right) THEN "split"
             ELSE IF cost_left < cost_right THEN "left"
             ELSE "right"

\* leaf_split as it would be without line 255: the parent keeps the value
leaf_split_keeps_value(self, aabb, value, gen, d) ==
    [aabb  |-> merge(self.aabb, aabb, NewObj(gen, d)),
     value |-> self.value,
     left  |-> <<deepcopy(self, gen)>>,
     right |-> <<AABBTree(aabb, value)>>]

\* lines 251-255: a leaf becomes the parent of its own copy and the new leaf
leaf_split(self, aabb, value, gen, d) ==
    [aabb  |-> merge(self.aabb, aabb, NewObj(gen, d)),
     value |-> "None",
     left  |-> <<deepcopy(self, gen)>>,
     right |-> <<AABBTree(aabb, value)>>]

\* internal_split as it would be with line 274 copying self.left instead of
\* self: the right subtree is lost
internal_split_copies_left(self, aabb, value, gen, d) ==
    LET l == deepcopy(self.left[1], gen)
        r == AABBTree(aabb, value)
    IN  [aabb  |-> merge(l.aabb, r.aabb, NewObj(gen, d)),
         value |-> "None",
         left  |-> <<l>>,
         right |-> <<r>>]

\* lines 274-276 and 281: an internal node becomes the parent of its own
\* copy and the new leaf
internal_split(self, aabb, value, gen, d) ==
    LET l == deepcopy(self, gen)
        r == AABBTree(aabb, value)
    IN  [aabb  |-> merge(l.aabb, r.aabb, NewObj(gen, d)),
         value |-> "None",
         left  |-> <<l>>,
         right |-> <<r>>]

\* AABBTree.add: the node after self.add(aabb, value); gen numbers the add
\* call and d is the depth of self
RECURSIVE add(_, _, _, _, _)
add(self, aabb, value, gen, d) ==
    LET c == choice(self, aabb)
    IN  IF c = "fill" THEN [self EXCEPT !.aabb = aabb, !.value = value]
        ELSE IF c = "leaf" THEN leaf_split(self, aabb, value, gen, d)
        ELSE IF c = "split" THEN internal_split(self, aabb, value, gen, d)
        ELSE IF c = "left"
        THEN LET l == add(self.left[1], aabb, value, gen, d + 1)
             IN  [self EXCEPT !.left = <<l>>,
                              !.aabb = merge(l.aabb, self.right[1].aabb, NewObj(gen, d))]
        ELSE LET r == add(self.right[1], aabb, value, gen, d + 1)
             IN  [self EXCEPT !.right = <<r>>,
                              !.aabb = merge(self.left[1].aabb, r.aabb, NewObj(gen, d))]

\* the branches one add call takes, from the root down
RECURSIVE add_branches(_, _)
add_branches(self, aabb) ==
    LET c == choice(self, aabb)
    IN  IF c = "left" THEN <<c>> \o add_branches(self.left[1], aabb)
        ELSE IF c = "right" THEN <<c>> \o add_branches(self.right[1], aabb)
        ELSE <<c>>

\* what the last operation returned: exc (it raised TypeError), val (a
\* boolean result), vals (overlap_values' list), calls (the AABB.overlaps
\* calls a query made, as [self, aabb]), branches (the branches an add took),
\* box (merge's result), num (perimeter's result)
Result(exc, val, vals, calls) ==
    [exc |-> exc, val |-> val, vals |-> vals, calls |-> calls, branches |-> <<>>,
     box |-> DefaultAABB, num |-> 0]

NoResult == Result(FALSE, FALSE, <<>>, {})

call(self, aabb) == [self |-> self, aabb |-> aabb]

RECURSIVE does_overlap(_, _)

\* does_overlap as it would be without lines 303-304: the right child is
\* never searched
does_overlap_left_only(self, aabb) ==
    IF is_leaf(self)
    THEN LET o == overlaps(self.aabb, aabb)
         IN  Result(o.exc, o.val, <<>>, {call(self.aabb, aabb)})
    ELSE LET left_aabb_over == overlaps(self.left[1].aabb, aabb)
             right_aabb_over == overlaps(self.right[1].aabb, aabb)
             c2 == {call(self.left[1].aabb, aabb), call(self.right[1].aabb, aabb)}
         IN  IF left_aabb_over.exc \/ right_aabb_over.exc THEN Result(TRUE, FALSE, <<>>, c2)
             ELSE IF left_aabb_over.val
                  THEN LET l == does_overlap(self.left[1], aabb)
                       IN  Result(l.exc, l.val, <<>>, c2 \cup l.calls)
                  ELSE Result(FALSE, FALSE, <<>>, c2)

\* AABBTree.does_overlap
does_overlap(self, aabb) ==
    IF is_leaf(self)
    THEN LET o == overlaps(self.aabb, aabb)
         IN  Result(o.exc, o.val, <<>>, {call(self.aabb, aabb)})
    ELSE LET left == self.left[1]
             right == self.right[1]
             left_aabb_over == overlaps(left.aabb, aabb)
             right_aabb_over == overlaps(right.aabb, aabb)
             c1 == {call(left.aabb, aabb)}
             c2 == c1 \cup {call(right.aabb, aabb)}
         IN  IF left_aabb_over.exc THEN Result(TRUE, FALSE, <<>>, c1)
             ELSE IF right_aabb_over.exc THEN Result(TRUE, FALSE, <<>>, c2)
             ELSE LET l == IF left_aabb_over.val THEN does_overlap(left, aabb)
                                                 ELSE NoResult
                      c3 == c2 \cup l.calls
                  IN  IF l.exc THEN Result(TRUE, FALSE, <<>>, c3)
                      ELSE IF left_aabb_over.val /\ l.val THEN Result(FALSE, TRUE, <<>>, c3)
                      ELSE LET r == IF right_aabb_over.val THEN does_overlap(right, aabb)
                                                           ELSE NoResult
                               c4 == c3 \cup r.calls
                           IN  IF r.exc THEN Result(TRUE, FALSE, <<>>, c4)
                               ELSE IF right_aabb_over.val /\ r.val
                                    THEN Result(FALSE, TRUE, <<>>, c4)
                                    ELSE Result(FALSE, FALSE, <<>>, c4)

\* AABBTree.overlap_values
RECURSIVE overlap_values(_, _)
overlap_values(self, aabb) ==
    IF is_leaf(self)
    THEN LET o == does_overlap(self, aabb)
         IN  IF o.exc THEN Result(TRUE, FALSE, <<>>, o.calls)
             ELSE IF o.val THEN Result(FALSE, FALSE, <<self.value>>, o.calls)
             ELSE Result(FALSE, FALSE, <<>>, o.calls)
    ELSE LET left == self.left[1]
             right == self.right[1]
             lo == overlaps(left.aabb, aabb)
             c1 == {call(left.aabb, aabb)}
         IN  IF lo.exc THEN Result(TRUE, FALSE, <<>>, c1)
             ELSE LET l == IF lo.val THEN overlap_values(left, aabb) ELSE NoResult
                      c2 == c1 \cup l.calls
                  IN  IF l.exc THEN Result(TRUE, FALSE, <<>>, c2)
                      ELSE LET ro == overlaps(right.aabb, aabb)
                               c3 == c2 \cup {call(right.aabb, aabb)}
                           IN  IF ro.exc THEN Result(TRUE, FALSE, <<>>, c3)
                               ELSE LET r == IF ro.val THEN overlap_values(right, aabb)
                                                       ELSE NoResult
                                        c4 == c3 \cup r.calls
                                    IN  IF r.exc THEN Result(TRUE, FALSE, <<>>, c4)
                                        ELSE Result(FALSE, FALSE, l.vals \o r.vals, c4)

----------------------------------------------------------------------------
(* The caller: one tree, built by add and queried in between *)

\* the boxes the caller may pass next: any new box of the tree's
\* dimensionality (every dimensionality while nothing was added), or a box
\* object it passed to add before
CallerDims == IF hist = <<>> THEN Dims ELSE {Len(hist[1].aabb.limits)}

NewBoxes(obj) == {AABB(l, obj) : l \in UNION {LimitsOf(d) : d \in CallerDims}}

OldBoxes == {hist[i].aabb : i \in 1..Len(hist)}

CallerBoxes == NewBoxes(<<Len(hist) + 1>>) \cup OldBoxes

NextValue == ValueNames[Len(hist) + 1]

NoThreads == <<>>
NoCursors == [o \in {} |-> 0]

\* tree = AABBTree()
Init ==
    /\ tree = AABBTree(DefaultAABB, "None")
    /\ hist = <<>>
    /\ op = "init"
    /\ arg = DefaultAABB
    /\ arg2 = DefaultAABB
    /\ prev = AABBTree(DefaultAABB, "None")
    /\ ret = NoResult
    /\ thr = NoThreads
    /\ cur = NoCursors

\* tree.add(aabb, value)
Add(aabb, value) ==
    /\ tree' = add(tree, aabb, value, Len(hist) + 1, 0)
    /\ hist' = Append(hist, [aabb |-> aabb, value |-> value])
    /\ op' = "add"
    /\ arg' = aabb
    /\ prev' = tree
    /\ ret' = [NoResult EXCEPT !.branches = add_branches(tree, aabb)]
    /\ UNCHANGED <<arg2, thr, cur>>

\* tree.does_overlap(aabb)
DoesOverlap(aabb) ==
    /\ op' = "does_overlap"
    /\ arg' = aabb
    /\ ret' = does_overlap(tree, aabb)
    /\ UNCHANGED <<tree, hist, prev, arg2, thr, cur>>

\* tree.overlap_values(aabb)
OverlapValues(aabb) ==
    /\ op' = "overlap_values"
    /\ arg' = aabb
    /\ ret' = overlap_values(tree, aabb)
    /\ UNCHANGED <<tree, hist, prev, arg2, thr, cur>>

\* Spec: a tree grown by add calls
Next ==
    \E aabb \in CallerBoxes : Len(hist) < MaxAdds /\ Add(aabb, NextValue)

Spec == Init /\ [][Next]_vars

\* SpecQuery: add calls and queries in any order
NextQuery ==
    \/ \E aabb \in CallerBoxes : Len(hist) < MaxQueryAdds /\ Add(aabb, NextValue)
    \/ \E aabb \in CallerBoxes : DoesOverlap(aabb)
    \/ \E aabb \in CallerBoxes : OverlapValues(aabb)

SpecQuery == Init /\ [][NextQuery]_vars

----------------------------------------------------------------------------
(* Properties *)

\* every node of the tree under n
RECURSIVE Nodes(_)
Nodes(n) ==
    {n} \cup (IF n.left = <<>> THEN {} ELSE Nodes(n.left[1]))
        \cup (IF n.right = <<>> THEN {} ELSE Nodes(n.right[1]))

\* the (limits, value) pairs of the leaves under n, left to right; the unset
\* root of an empty tree holds no pair
RECURSIVE LeafPairs(_)
LeafPairs(n) ==
    IF is_leaf(n)
    THEN (IF n.aabb.isNone THEN <<>> ELSE <<<<n.aabb.limits, n.value>>>>)
    ELSE (IF n.left = <<>> THEN <<>> ELSE LeafPairs(n.left[1]))
            \o (IF n.right = <<>> THEN <<>> ELSE LeafPairs(n.right[1]))

HistPairs == [i \in 1..Len(hist) |-> <<hist[i].aabb.limits, hist[i].value>>]

RECURSIVE SeqBag(_)
SeqBag(s) == IF s = <<>> THEN EmptyBag ELSE SetToBag({Head(s)}) (+) SeqBag(Tail(s))

\* a node without the identities of its boxes
RECURSIVE Shape(_)
Shape(n) ==
    [limits |-> n.aabb.limits, value |-> n.value,
     left  |-> IF n.left = <<>> THEN <<>> ELSE <<Shape(n.left[1])>>,
     right |-> IF n.right = <<>> THEN <<>> ELSE <<Shape(n.right[1])>>]

LastBranch == ret.branches[Len(ret.branches)]

\* C1: after every add, every internal node's box equals
\* AABB.merge(node.left.aabb, node.right.aabb).
C1_Tightness ==
    op = "add" =>
        \A n \in Nodes(tree) :
            is_leaf(n) \/ AABB_eq(n.aabb, merge(n.left[1].aabb, n.right[1].aabb, <<0>>))

\* C7: every node has no child or two children, and a node with children has
\* value None.
C7_NodeShape ==
    \A n \in Nodes(tree) :
        /\ (n.left = <<>>) <=> (n.right = <<>>)
        /\ ~is_leaf(n) => n.value = "None"

\* an add has split an internal node below the root
C7_Witness ==
    /\ op = "add"
    /\ Len(ret.branches) = 2
    /\ LastBranch = "split"
    /\ C7_NodeShape

\* C10: after n >= 1 adds the tree has n leaves, their (box, value) pairs are
\* the inserted pairs, and the add just made kept every pair the tree held
\* and put in exactly the new one.
C10_InsertOnlyAdds ==
    op = "add" =>
        /\ Len(LeafPairs(tree)) = Len(hist)
        /\ SeqBag(LeafPairs(tree)) = SeqBag(HistPairs)
        /\ SeqBag(LeafPairs(tree)) =
              SeqBag(LeafPairs(prev)) (+) SetToBag({<<arg.limits, hist[Len(hist)].value>>})

\* an add has split the root while it had three leaves: the deep copy
\* carried a whole subtree
C10_Witness ==
    /\ op = "add"
    /\ ret.branches = <<"split">>
    /\ Len(LeafPairs(prev)) = 3
    /\ C10_InsertOnlyAdds

\* the rule C8 states, on the boxes' limits: merge as the per-dimension
\* (min lower, max upper), perimeter as AABB.perimeter
ClaimMerge(l1, l2) ==
    [k \in 1..Len(l1) |-> <<Min(l1[k][1], l2[k][1]), Max(l1[k][2], l2[k][2])>>]

ClaimPerimeter(l) == perimeter(AABB(l, <<0>>))

ClaimChoice(self, box) ==
    LET merged_p == ClaimPerimeter(ClaimMerge(self.aabb.limits, box.limits))
        direct_cost == 2 * merged_p
        pushdown == 2 * (merged_p - ClaimPerimeter(self.aabb.limits))
        cost(c) == ClaimPerimeter(ClaimMerge(c.aabb.limits, box.limits)) + pushdown
                     - (IF is_leaf(c) THEN 0 ELSE ClaimPerimeter(c.aabb.limits))
    IN  IF direct_cost < Min(cost(self.left[1]), cost(self.right[1])) THEN "split"
        ELSE IF cost(self.left[1]) < cost(self.right[1]) THEN "left"
        ELSE "right"

RECURSIVE ClaimBranches(_, _)
ClaimBranches(self, box) ==
    IF is_leaf(self) THEN <<"leaf">>
    ELSE LET c == ClaimChoice(self, box)
         IN  IF c = "left" THEN <<c>> \o ClaimBranches(self.left[1], box)
             ELSE IF c = "right" THEN <<c>> \o ClaimBranches(self.right[1], box)
             ELSE <<c>>

\* the node a sequence of "left"/"right" branches leads to
RECURSIVE Sub(_, _)
Sub(n, path) ==
    IF path = <<>> \/ Head(path) \notin {"left", "right"} THEN n
    ELSE IF Head(path) = "left" THEN Sub(n.left[1], Tail(path))
    ELSE Sub(n.right[1], Tail(path))

\* C8: at every internal node an add passes, it splits exactly when
\* direct_cost < min(cost_left, cost_right) (the old subtree becomes the left
\* child unchanged, the new leaf the right child), else goes left exactly
\* when cost_left < cost_right, else right.  Stated for trees whose boxes all
\* have the dimensionality of the added box.
C8_InsertionDecision ==
    (/\ op = "add"
     /\ ~is_leaf(prev)
     /\ \A n \in Nodes(prev) : Len(n.aabb.limits) = Len(arg.limits))
    => /\ ret.branches = ClaimBranches(prev, arg)
       /\ LastBranch = "split" =>
             /\ Shape(Sub(tree, ret.branches).left[1]) = Shape(Sub(prev, ret.branches))
             /\ Shape(Sub(tree, ret.branches).right[1])
                   = Shape(AABBTree(arg, hist[Len(hist)].value))

\* the closed-interval rule of C2 on two limits lists of one dimensionality
ClaimOverlaps(l1, l2) ==
    \A k \in 1..Len(l1) : l1[k][2] >= l2[k][1] /\ l1[k][1] <= l2[k][2]

\* the values inserted with a box that overlaps the queried one
RECURSIVE OverlappingValues(_, _)
OverlappingValues(h, l) ==
    IF h = <<>> THEN <<>>
    ELSE (IF ClaimOverlaps(Head(h).aabb.limits, l) THEN <<Head(h).value>> ELSE <<>>)
            \o OverlappingValues(Tail(h), l)

\* C2: on a tree built by add, overlap_values(q) returns exactly the values
\* whose box overlaps q by the closed-interval rule, each as often as it was
\* inserted.
C2_QueryCorrectness ==
    (op = "overlap_values" /\ hist # <<>>) =>
        /\ ~ret.exc
        /\ SeqBag(ret.vals) = SeqBag(OverlappingValues(hist, arg.limits))

\* C3: does_overlap(q) is true exactly when overlap_values(q) is non-empty
\* (and one raises exactly when the other does).
C3_DoesOverlapConsistency ==
    /\ op = "does_overlap" =>
          LET v == overlap_values(tree, arg)
          IN  ret.exc = v.exc /\ (~ret.exc => (ret.val <=> Len(v.vals) > 0))
    /\ op = "overlap_values" =>
          LET o == does_overlap(tree, arg)
          IN  ret.exc = o.exc /\ (~ret.exc => (o.val <=> Len(ret.vals) > 0))

\* does_overlap found the overlap in the right child after the left child's
\* box missed the query
C3_Witness ==
    /\ op = "does_overlap"
    /\ ~is_leaf(tree)
    /\ ~ret.exc /\ ret.val
    /\ ~overlaps(tree.left[1].aabb, arg).val
    /\ Len(overlap_values(tree, arg).vals) > 0

\* C5: no query with a non-empty box calls AABB.overlaps with an empty box
\* as receiver or argument, in any tree reachable by zero or more adds.
C5_NoEmptyBoxToOverlaps ==
    (op \in {"does_overlap", "overlap_values"} /\ ~arg.isNone) =>
        \A c \in ret.calls : ~c.self.isNone /\ ~c.aabb.isNone

\* C9: after add(b, v) on an empty tree, does_overlap(b) with that same
\* object is true and overlap_values(b) is [v].
C9_BoxOverlapsItself ==
    (Len(hist) = 1 /\ arg = hist[1].aabb) =>
        /\ op = "does_overlap" => (~ret.exc /\ ret.val)
        /\ op = "overlap_values" => (~ret.exc /\ ret.vals = <<hist[1].value>>)

----------------------------------------------------------------------------
(* SpecBox: the operations of AABB on two boxes the caller made *)

BoxInputs(obj) ==
    {AABB_None(obj)} \cup {AABB(l, obj) : l \in UNION {LimitsOf(d) : d \in Dims}}

\* aabb1 and aabb2 are two objects, or one object passed twice
InitBox ==
    /\ arg \in BoxInputs(<<1>>)
    /\ arg2 \in BoxInputs(<<2>>) \cup {arg}
    /\ op = "init"
    /\ ret = NoResult
    /\ tree = AABBTree(DefaultAABB, "None")
    /\ prev = AABBTree(DefaultAABB, "None")
    /\ hist = <<>>
    /\ thr = NoThreads
    /\ cur = NoCursors

\* AABB.merge(arg, arg2)
Merge ==
    /\ op' = "merge"
    /\ ret' = [NoResult EXCEPT !.box = merge(arg, arg2, <<3>>)]
    /\ UNCHANGED <<tree, hist, prev, arg, arg2, thr, cur>>

\* arg.overlaps(arg2)
Overlaps ==
    /\ op' = "overlaps"
    /\ ret' = LET o == overlaps(arg, arg2) IN [NoResult EXCEPT !.exc = o.exc, !.val = o.val]
    /\ UNCHANGED <<tree, hist, prev, arg, arg2, thr, cur>>

\* arg.perimeter: len(self) raises TypeError on limits None
Perimeter ==
    /\ op' = "perimeter"
    /\ ret' = IF arg.isNone THEN [NoResult EXCEPT !.exc = TRUE]
              ELSE [NoResult EXCEPT !.num = perimeter(arg)]
    /\ UNCHANGED <<tree, hist, prev, arg, arg2, thr, cur>>

\* arg == arg2
Eq ==
    /\ op' = "eq"
    /\ ret' = [NoResult EXCEPT !.val = AABB_eq(arg, arg2)]
    /\ UNCHANGED <<tree, hist, prev, arg, arg2, thr, cur>>

NextBox == Merge \/ Overlaps \/ Perimeter \/ Eq

SpecBox == InitBox /\ [][NextBox]_vars

\* C6: merge and overlaps on two non-empty boxes of differing dimensionality
\* end in an error and return no result.
C6_DimensionMismatchFails ==
    (/\ op \in {"merge", "overlaps"}
     /\ ~arg.isNone /\ ~arg2.isNone
     /\ Len(arg.limits) # Len(arg2.limits))
    => ret.exc

----------------------------------------------------------------------------
(* SpecConc: two queries running interleaved on one tree.  A step of a     *)
(* thread is one call of AABB.__iter__ or AABB.__next__ made by the zip of *)
(* AABB.overlaps, with the thread's own work up to its next such call.     *)
(* cur[o] is the attribute _i of box object o.  A call of __next__ is      *)
(* taken as one step; the interpreter may also switch threads between its  *)
(* lines 40, 41 and 42, which adds behaviours (an IndexError at line 41)   *)
(* and removes none.                                                       *)

\* a frame of does_overlap / overlap_values on node self, waiting at pc for
\* the call it made: "leaf" (line 296), "left_over" (298), "right_over"
\* (299), "left_rec" (301), "right_rec" (303), "ov_leaf" (319),
\* "ov_left_over" (324), "ov_left_rec" (325), "ov_right_over" (327),
\* "ov_right_rec" (328)
Frame(self, pc) == [self |-> self, pc |-> pc, lo |-> FALSE, ro |-> FALSE, values |-> <<>>]

\* the zip of self.overlaps(aabb) before its first step
ZipStart(self) == [self |-> self, pc |-> "iter_self", lims1 |-> <<0, 0>>]

ZipIdle == [self |-> DefaultAABB, pc |-> "idle", lims1 |-> <<0, 0>>]

Push(t, self, pc) == [t EXCEPT !.stack = Append(@, Frame(self, pc))]

Pop(t) == [t EXCEPT !.stack = SubSeq(@, 1, Len(@) - 1)]

SetTop(t, f) == [t EXCEPT !.stack[Len(t.stack)] = f]

\* the thread calls self.overlaps(t.aabb)
CallOverlaps(t, self) == [t EXCEPT !.z = ZipStart(self)]

\* the thread calls self.does_overlap(t.aabb), up to the overlaps call
CallDoesOverlap(t, self) ==
    IF is_leaf(self) THEN CallOverlaps(Push(t, self, "leaf"), self.aabb)
    ELSE CallOverlaps(Push(t, self, "left_over"), self.left[1].aabb)

\* the thread calls self.overlap_values(t.aabb), up to the overlaps call
CallOverlapValues(t, self) ==
    IF is_leaf(self) THEN CallDoesOverlap(Push(t, self, "ov_leaf"), self)
    ELSE CallOverlaps(Push(t, self, "ov_left_over"), self.left[1].aabb)

\* the call the top frame waits for returned b (a boolean) or vs (a list):
\* the thread runs on to its next overlaps call, or to the end
RECURSIVE Resume(_, _, _)
Resume(t, b, vs) ==
    IF t.stack = <<>>
    THEN [t EXCEPT !.done = TRUE, !.val = b, !.vals = vs, !.z = ZipIdle]
    ELSE LET f == t.stack[Len(t.stack)]
             left == f.self.left[1]
             right == f.self.right[1]
             \* lines 303-305 of does_overlap
             CheckRight(u, ro) ==
                 IF ro THEN CallDoesOverlap(SetTop(u, [f EXCEPT !.pc = "right_rec"]), right)
                 ELSE Resume(Pop(u), FALSE, <<>>)
         IN  CASE f.pc = "leaf" -> Resume(Pop(t), b, <<>>)
               [] f.pc = "left_over" ->
                     CallOverlaps(SetTop(t, [f EXCEPT !.lo = b, !.pc = "right_over"]), right.aabb)
               [] f.pc = "right_over" ->
                     IF f.lo
                     THEN CallDoesOverlap(SetTop(t, [f EXCEPT !.ro = b, !.pc = "left_rec"]), left)
                     ELSE CheckRight(t, b)
               [] f.pc = "left_rec" ->
                     IF b THEN Resume(Pop(t), TRUE, <<>>) ELSE CheckRight(t, f.ro)
               [] f.pc = "right_rec" -> Resume(Pop(t), b, <<>>)
               [] f.pc = "ov_leaf" ->
                     Resume(Pop(t), FALSE, IF b THEN <<f.self.value>> ELSE <<>>)
               [] f.pc = "ov_left_over" ->
                     IF b THEN CallOverlapValues(SetTop(t, [f EXCEPT !.pc = "ov_left_rec"]), left)
                     ELSE CallOverlaps(SetTop(t, [f EXCEPT !.pc = "ov_right_over"]), right.aabb)
               [] f.pc = "ov_left_rec" ->
                     CallOverlaps(SetTop(t, [f EXCEPT !.values = @ \o vs,
                                                      !.pc = "ov_right_over"]), right.aabb)
               [] f.pc = "ov_right_over" ->
                     IF b THEN CallOverlapValues(SetTop(t, [f EXCEPT !.pc = "ov_right_rec"]), right)
                     ELSE Resume(Pop(t), FALSE, f.values)
               [] f.pc = "ov_right_rec" -> Resume(Pop(t), FALSE, f.values \o vs)

\* a thread about to call tree.fn(aabb)
Thread(fn, aabb) ==
    LET t == [fn |-> fn, aabb |-> aabb, stack |-> <<>>, z |-> ZipIdle,
              done |-> FALSE, exc |-> FALSE, val |-> FALSE, vals |-> <<>>]
    IN  IF fn = "does_overlap" THEN CallDoesOverlap(t, tree) ELSE CallOverlapValues(t, tree)

\* the thread's call raised TypeError
Raise(t) == [t EXCEPT !.done = TRUE, !.exc = TRUE, !.stack = <<>>, !.z = ZipIdle]

SetCursor(o, i) == (o :> i) @@ cur

\* the second thread's box: a new one, one passed to add, or the first thread's
StartQueries(fn1, q1, fn2, q2) ==
    /\ thr = NoThreads
    /\ thr' = <<Thread(fn1, q1), Thread(fn2, q2)>>
    /\ op' = "queries"
    /\ UNCHANGED <<tree, hist, prev, arg, arg2, ret, cur>>

\* zip calls iter(self): AABB.__iter__ resets self._i
IterSelf(k) ==
    /\ thr # NoThreads /\ thr[k].z.pc = "iter_self"
    /\ cur' = SetCursor(thr[k].z.self.obj, 0)
    /\ thr' = [thr EXCEPT ![k].z.pc = "iter_aabb"]
    /\ UNCHANGED <<tree, hist, op, prev, arg, arg2, ret>>

\* zip calls iter(aabb): AABB.__iter__ resets aabb._i
IterAabb(k) ==
    /\ thr # NoThreads /\ thr[k].z.pc = "iter_aabb"
    /\ cur' = SetCursor(thr[k].aabb.obj, 0)
    /\ thr' = [thr EXCEPT ![k].z.pc = "next_self"]
    /\ UNCHANGED <<tree, hist, op, prev, arg, arg2, ret>>

\* zip calls next(self): AABB.__next__ on the receiver; StopIteration ends
\* the loop of overlaps, which returns True
NextSelf(k) ==
    /\ thr # NoThreads /\ thr[k].z.pc = "next_self"
    /\ LET self == thr[k].z.self
           i == cur[self.obj]
       IN  IF self.isNone
           THEN /\ thr' = [thr EXCEPT ![k] = Raise(@)]
                /\ cur' = cur
           ELSE IF i < Len(self.limits)
           THEN /\ thr' = [thr EXCEPT ![k].z.lims1 = self.limits[i + 1],
                                      ![k].z.pc = "next_aabb"]
                /\ cur' = SetCursor(self.obj, i + 1)
           ELSE /\ thr' = [thr EXCEPT ![k] = Resume(@, TRUE, <<>>)]
                /\ cur' = cur
    /\ UNCHANGED <<tree, hist, op, prev, arg, arg2, ret>>

\* zip calls next(aabb): AABB.__next__ on the argument, then the loop body
\* of overlaps (lines 144-149) on the pair
NextAabb(k) ==
    /\ thr # NoThreads /\ thr[k].z.pc = "next_aabb"
    /\ LET aabb == thr[k].aabb
           i == cur[aabb.obj]
           lims1 == thr[k].z.lims1
       IN  IF aabb.isNone
           THEN /\ thr' = [thr EXCEPT ![k] = Raise(@)]
                /\ cur' = cur
           ELSE IF i < Len(aabb.limits)
           THEN /\ cur' = SetCursor(aabb.obj, i + 1)
                /\ LET lims2 == aabb.limits[i + 1]
                   IN  IF (lims1[2] >= lims2[1]) /\ (lims1[1] <= lims2[2])
                       THEN thr' = [thr EXCEPT ![k].z.pc = "next_self"]
                       ELSE thr' = [thr EXCEPT ![k] = Resume(@, FALSE, <<>>)]
           ELSE /\ thr' = [thr EXCEPT ![k] = Resume(@, TRUE, <<>>)]
                /\ cur' = cur
    /\ UNCHANGED <<tree, hist, op, prev, arg, arg2, ret>>

Fns == {"does_overlap", "overlap_values"}

\* the limits of the boxes SpecConc's caller makes: two disjoint 1-d boxes
ConcLimits == {<<<<0, 0>>>>, <<<<1, 1>>>>}

ConcBoxes(obj) ==
    {AABB(l, obj) : l \in {x \in ConcLimits : Len(x) \in CallerDims}} \cup OldBoxes

NextConc ==
    \/ \E aabb \in ConcBoxes(<<Len(hist) + 1>>) :
          thr = NoThreads /\ Len(hist) < MaxConcAdds /\ Add(aabb, NextValue)
    \/ \E fn1, fn2 \in Fns, q1 \in ConcBoxes(<<Len(hist) + 1>>) :
          \E q2 \in ConcBoxes(<<Len(hist) + 2>>) \cup {q1} :
              StartQueries(fn1, q1, fn2, q2)
    \/ \E k \in {1, 2} : IterSelf(k)
    \/ \E k \in {1, 2} : IterAabb(k)
    \/ \E k \in {1, 2} : NextSelf(k)
    \/ \E k \in {1, 2} : NextAabb(k)

SpecConc == Init /\ [][NextConc]_vars

\* what thread k's call returns when it runs alone on the tree
Alone(k) ==
    IF thr[k].fn = "does_overlap" THEN does_overlap(tree, thr[k].aabb)
    ELSE overlap_values(tree, thr[k].aabb)

SameResult(k) ==
    /\ thr[k].exc = Alone(k).exc
    /\ thr[k].val = Alone(k).val
    /\ thr[k].vals = Alone(k).vals

\* C4: two queries interleaved on one tree, no add in flight, each return
\* what they return when run alone.
C4_ConcurrentQueries ==
    (thr # NoThreads /\ thr[1].done /\ thr[2].done) => (SameResult(1) /\ SameResult(2))

====
